---- MODULE Spec2Model ----
(***************************************************************************)
(* Centric PLM Integration Bridge: the lifecycle state machine of          *)
(* core/startable.py (Startable, StartableManager, LifeCycleManager) and   *)
(* the queue-fed worker loop of core/msgpexec.py (ProcessThreadExecutor).  *)
(*                                                                         *)
(* Seven specifications share the module:                                  *)
(*   Spec          one Startable with listeners, driven by one thread      *)
(*   SpecManager   a StartableManager cascading over its children          *)
(*   SpecWorker    the worker loop of ProcessThreadExecutor and its queue  *)
(*   SpecSingleton threads racing in get_default_instance()                *)
(*   SpecThreads   threads racing in start() on one Startable              *)
(*   SpecRace      SpecManager with stop() racing against add_object()     *)
(*   SpecSupervisor a ProcessThreadExecutor taken through its lifecycle     *)
(***************************************************************************)
EXTENDS Integers, Sequences, FiniteSets, TLC

VARIABLES
    obj,        \* Spec: the Startable (its fields)
    last,       \* Spec: the last call made on it and what was observed in it
    hist,       \* Spec: what was called before the last call
    mgr,        \* SpecManager: the StartableManager's own Startable fields
    kids,       \* SpecManager: every child Startable's fields, by child id
    objects,    \* SpecManager: _startable_objects, a sequence of child ids
    mlast,      \* SpecManager: the last call made on the manager
    queue,      \* SpecWorker: ProcessThreadExecutor._queue, the items in it
    enqueued,   \* SpecWorker: every item ever put, in put order
    executed,   \* SpecWorker: the calls of execute_module, in order
    wpc,        \* SpecWorker: the worker process's position in subprocess_entry
    wlast,      \* SpecWorker: what the worker's last step did
    engine,     \* SpecWorker: how often _handler was started and stopped
    sup,        \* SpecWorker: the supervisor's progress through start and stop
    VM_DEFAULT, \* SpecSingleton: LifeCycleManager.VM_DEFAULT
    SINGLETON_LOCK, \* SpecSingleton: owner and depth of the class lock
    tpc,        \* SpecSingleton: each thread's position in get_default_instance
    tret,       \* SpecSingleton: what each thread's call returned
    made,       \* SpecSingleton: per instance allocated, how often __init__ ran
    cobj,       \* SpecThreads: the fields of the Startable the threads share
    cpc,        \* SpecThreads: each thread's position in start()
    clog,       \* SpecThreads: the hooks begun and ended and the callbacks made
    rpc,        \* SpecRace: the positions of the stop() and add_object threads
    sobj,       \* SpecSupervisor: the ProcessThreadExecutor's Startable fields
    sproc,      \* SpecSupervisor: _process, the handle made by do_configure
    squeue,     \* SpecSupervisor: _queue, the queue made by do_configure
    slast       \* SpecSupervisor: the last lifecycle call and what it raised

lifeVars == <<obj, last, hist>>
mgrVars == <<mgr, kids, objects, mlast>>
workerVars == <<queue, enqueued, executed, wpc, wlast, engine, sup>>
singleVars == <<VM_DEFAULT, SINGLETON_LOCK, tpc, tret, made>>
threadVars == <<cobj, cpc, clog>>
raceVars == <<rpc>>
supVars == <<sobj, sproc, squeue, slast>>
vars == <<obj, last, hist, mgr, kids, objects, mlast, queue, enqueued, executed,
          wpc, wlast, engine, sup, VM_DEFAULT, SINGLETON_LOCK, tpc, tret, made,
          cobj, cpc, clog, rpc, sobj, sproc, squeue, slast>>

(***************************************************************************)
(* Bounds of the model.                                                    *)
(***************************************************************************)
NumListeners == 2      \* the StartableListener objects are 1..NumListeners
MaxListeners == 2      \* add_listener is called while the list is shorter
NumChildren == 2       \* the child Startables of SpecManager are 1..NumChildren
NumMessages == 2       \* the messages submitted in SpecWorker are 1..NumMessages
MaxPuts == 4           \* the callers of submit_task put this many items at most
NumThreads == 3        \* the threads of SpecSingleton are 1..NumThreads
MaxCalls == 2          \* each thread calls get_default_instance this often at most
NumStarters == 2       \* the threads of SpecThreads are 1..NumStarters
MaxSupCalls == 5       \* lifecycle calls made on the supervisor of SpecSupervisor
MaxSubmits == 2        \* submit_task calls made on the supervisor of SpecSupervisor

Listeners == 1..NumListeners
NotAListener == NumListeners + 1      \* a value that is not a StartableListener

(***************************************************************************)
(* Startable's state constants.                                            *)
(***************************************************************************)
FAILED == -1
STOPPED == 0
STARTING == 1
STARTED == 2
STOPPING == 3
CONFIGURING == 4
CONFIGURED == 5
UNCONFIGURED == 6

None == 0                  \* Python's None
ManagerConfig == None + 1  \* the configuration object given to the manager
Children == 1..NumChildren
RuntimeError == "RuntimeError"
NoExc == "none"
ListenerExc == "listener"
Hooks == {"do_configure", "do_start", "do_stop"}

(***************************************************************************)
(* Sequences as Python lists.                                              *)
(***************************************************************************)
Count(s, x) == Cardinality({i \in 1..Len(s) : s[i] = x})

Contains(s, x) == \E i \in 1..Len(s) : s[i] = x

\* list.index(x): the position of the first occurrence
IndexOf(s, x) == CHOOSE i \in 1..Len(s) : s[i] = x /\ \A j \in 1..(i - 1) : s[j] # x

\* list.pop(i)
Pop(s, i) == [j \in 1..(Len(s) - 1) |-> IF j < i THEN s[j] ELSE s[j + 1]]

(***************************************************************************)
(* A call runs on a machine m: the object's fields, and with them the      *)
(* call's inputs (hr: the hooks that raise when run; fault: the one        *)
(* listener callback of the call that raises or changes the listener       *)
(* list), its pending exception exc, the number nd of callbacks delivered  *)
(* and the log of what happened, in order:                                 *)
(*   k = "set"   _state was assigned s; at is the listener list then       *)
(*   k = "ev"    listener l was called with event e (x: the exception a    *)
(*               failure event carries)                                    *)
(*   k = "hook"  hook e was run (x: what it raised)                        *)
(*   k = "child" a manager called e on child l (x: what the call raised,   *)
(*               at: the hooks the child ran)                              *)
(***************************************************************************)
NoFault == [at |-> 0, kind |-> "ok", arg |-> 0]

\* A StartableManager's machine also holds _startable_objects (child ids),
\* its children's fields (kids) and, by child, the hooks that raise (khr).
MachineOf(o, hr, fault, kind, ks, objs, khr) ==
    [state |-> o.state, configured |-> o.configured, enabled |-> o.enabled,
     listeners |-> o.listeners, lock |-> o.lock, configuration |-> o.configuration,
     hr |-> hr, fault |-> fault, exc |-> NoExc, nd |-> 0, log |-> <<>>,
     kind |-> kind, kids |-> ks, objects |-> objs, khr |-> khr]

Machine(o, hr, fault) == MachineOf(o, hr, fault, "Startable", <<>>, <<>>, <<>>)

ManagerMachine(o, ks, objs, khr) ==
    MachineOf(o, {}, NoFault, "StartableManager", ks, objs, khr)

ObjectOf(m) ==
    [state |-> m.state, configured |-> m.configured, enabled |-> m.enabled,
     listeners |-> m.listeners, lock |-> m.lock, configuration |-> m.configuration]

\* Startable.__init__
NewStartable(en, config) ==
    [state |-> STOPPED, configured |-> UNCONFIGURED, enabled |-> en,
     listeners |-> <<>>, lock |-> 0, configuration |-> config]

\* Startable.set_configuration
set_configuration(o, config) == [o EXCEPT !.configuration = config]

\* Mutant of add_listener: a listener already registered is not appended again.
add_listener_once(ls, v) ==
    IF v \in Listeners /\ ~Contains(ls, v) THEN Append(ls, v) ELSE ls

\* Startable.add_listener: appended when it is a StartableListener
add_listener(ls, v) == IF v \in Listeners THEN Append(ls, v) ELSE ls

\* Startable.remove_listener: the first occurrence is popped
remove_listener(ls, v) ==
    IF v \in Listeners /\ Contains(ls, v) THEN Pop(ls, IndexOf(ls, v)) ELSE ls

\* Let(v, F) is F(v) with v evaluated once, so that a call's steps run in
\* sequence, each on the value the step before it returned.
Let(v, F(_)) == CHOOSE r \in {F(w) : w \in {v}} : TRUE

\* What the listener callback called as the k-th of the call does.
Behaviour(m, k) == IF m.fault.at = k THEN m.fault.kind ELSE "ok"

\* One callback: listener l is called with event ev. It returns, raises, or
\* calls add_listener or remove_listener on the object before it returns.
Callback(m, l, ev, x) ==
    Let([m EXCEPT !.nd = @ + 1,
                  !.log = Append(@, [k |-> "ev", s |-> m.state, l |-> l, e |-> ev,
                                     x |-> x, at |-> <<>>])],
        LAMBDA m1 :
            CASE Behaviour(m1, m1.nd) = "raise" -> [m1 EXCEPT !.exc = ListenerExc]
              [] Behaviour(m1, m1.nd) = "add" ->
                    [m1 EXCEPT !.listeners = add_listener(@, m1.fault.arg)]
              [] Behaviour(m1, m1.nd) = "remove" ->
                    [m1 EXCEPT !.listeners = remove_listener(@, m1.fault.arg)]
              [] OTHER -> m1)

\* for listener in self._listeners: listener.on_<ev>(self, ...)
\* Python's list iterator is an index into the live list: it stops when the
\* index passes the list's current length, and an exception ends the loop.
RECURSIVE NotifyFrom(_, _, _, _)
NotifyFrom(m, i, ev, x) ==
    IF i > Len(m.listeners) THEN m
    ELSE Let(Callback(m, m.listeners[i], ev, x),
             LAMBDA m1 : IF m1.exc # NoExc THEN m1 ELSE NotifyFrom(m1, i + 1, ev, x))

\* self._state = s, logged with the event its listeners are about to get
Assign(m, s, ev, x) ==
    [m EXCEPT !.state = s,
              !.log = Append(@, [k |-> "set", s |-> s, l |-> 0, e |-> ev, x |-> x,
                                 at |-> m.listeners])]

_set_configured(m) ==
    Let(Assign(m, CONFIGURED, "configured", NoExc),
        LAMBDA m1 : Let([m1 EXCEPT !.configured = m1.state],
                        LAMBDA m2 : NotifyFrom(m2, 1, "configured", NoExc)))

_set_configuring(m) ==
    Let(Assign(m, CONFIGURING, "configuring", NoExc),
        LAMBDA m1 : Let([m1 EXCEPT !.configured = m1.state],
                        LAMBDA m2 : NotifyFrom(m2, 1, "configuring", NoExc)))

_set_failed(m, exc) ==
    Let(Assign(m, FAILED, "failure", exc), LAMBDA m1 : NotifyFrom(m1, 1, "failure", exc))

_set_starting(m) ==
    Let(Assign(m, STARTING, "starting", NoExc),
        LAMBDA m1 : NotifyFrom(m1, 1, "starting", NoExc))

_set_started(m) ==
    Let(Assign(m, STARTED, "started", NoExc),
        LAMBDA m1 : NotifyFrom(m1, 1, "started", NoExc))

_set_stopping(m) ==
    Let(Assign(m, STOPPING, "stopping", NoExc),
        LAMBDA m1 : NotifyFrom(m1, 1, "stopping", NoExc))

_set_stopped(m) ==
    Let(Assign(m, STOPPED, "stopped", NoExc),
        LAMBDA m1 : NotifyFrom(m1, 1, "stopped", NoExc))

\* A hook of the object: it raises when the call's input says so.
RunHook(m, h) ==
    [m EXCEPT !.exc = IF h \in m.hr THEN h ELSE NoExc,
              !.log = Append(@, [k |-> "hook", s |-> m.state, l |-> 0, e |-> h,
                                 x |-> IF h \in m.hr THEN h ELSE NoExc, at |-> <<>>])]

RECURSIVE Call(_, _)

\* the hooks run in a call, in order, from its log
IsHook(entry) == entry.k = "hook"
HookNames(log) ==
    Let(SelectSeq(log, IsHook), LAMBDA hs : [i \in 1..Len(hs) |-> hs[i].e])

\* Mutant of ChildCall: the child's exception is not caught.
ChildCall_propagates(m, c, op) ==
    Let(Call(op, Machine(IF op = "configure"
                         THEN set_configuration(m.kids[c], m.configuration)
                         ELSE m.kids[c], m.khr[c], NoFault)),
        LAMBDA r : [m EXCEPT !.kids[c] = ObjectOf(r), !.exc = r.exc,
                             !.log = Append(@, [k |-> "child", s |-> m.state, l |-> c,
                                                e |-> op, x |-> r.exc,
                                                at |-> HookNames(r.log)])])

\* One turn of a StartableManager hook's loop, on child c:
\*   try: [item.set_configuration(self.get_configuration())]; item.<op>()
\*   except Exception as exc: logging.error(exc)
ChildCall(m, c, op) ==
    Let(Call(op, Machine(IF op = "configure"
                         THEN set_configuration(m.kids[c], m.configuration)
                         ELSE m.kids[c], m.khr[c], NoFault)),
        LAMBDA r : [m EXCEPT !.kids[c] = ObjectOf(r),
                             !.log = Append(@, [k |-> "child", s |-> m.state, l |-> c,
                                                e |-> op, x |-> r.exc,
                                                at |-> HookNames(r.log)])])

\* for item in self._startable_objects: ...
RECURSIVE CascadeFrom(_, _, _)
CascadeFrom(m, i, op) ==
    IF i > Len(m.objects) THEN m
    ELSE Let(ChildCall(m, m.objects[i], op),
             LAMBDA m1 : IF m1.exc # NoExc THEN m1 ELSE CascadeFrom(m1, i + 1, op))

\* The hooks: Startable's do nothing (here: raise when the call's input says
\* so), StartableManager overrides them with the loop over its children.
do_configure(m) ==
    IF m.kind = "StartableManager" THEN CascadeFrom(m, 1, "configure")
    ELSE RunHook(m, "do_configure")

do_start(m) ==
    IF m.kind = "StartableManager" THEN CascadeFrom(m, 1, "start")
    ELSE RunHook(m, "do_start")

do_stop(m) ==
    IF m.kind = "StartableManager" THEN CascadeFrom(m, 1, "stop")
    ELSE RunHook(m, "do_stop")

\* self._lock.acquire(blocking=True) and, in the finally clause, release()
Acquire(m) == [m EXCEPT !.lock = @ + 1]
Release(m) == [m EXCEPT !.lock = @ - 1]

\* Mutant of Except: the exception is handled and not raised again.
Except_swallows(m) ==
    Let([m EXCEPT !.exc = NoExc], LAMBDA m1 : _set_failed(m1, m.exc))

\* except Exception as exc: self._set_failed(exc); raise exc
\* An exception raised inside _set_failed replaces exc.
Except(m) ==
    Let([m EXCEPT !.exc = NoExc],
        LAMBDA m1 : Let(_set_failed(m1, m.exc),
                        LAMBDA f : IF f.exc = NoExc THEN [f EXCEPT !.exc = m.exc] ELSE f))

\* finally: self._lock.release(), after the except clause when the body raised
Finally(m) ==
    IF m.exc = NoExc THEN Release(m)
    ELSE Let(Except(m), LAMBDA f : Release(f))

\* Mutant of ConfigureGuard: only the main state is tested.
ConfigureGuard_stateOnly(m) == m.state \in {CONFIGURED, CONFIGURING}

ConfigureGuard(m) ==
    m.configured = CONFIGURED \/ m.state \in {CONFIGURED, CONFIGURING}

\* the statements of the try block, each run when none before it raised
ConfigureBody(m) ==
    Let(_set_configuring(m), LAMBDA m1 :
        IF m1.exc # NoExc THEN m1
        ELSE Let(do_configure(m1), LAMBDA m2 : IF m2.exc # NoExc THEN m2 ELSE _set_configured(m2)))

\* Startable.configure
configure(m) ==
    Let(Acquire(m),
        LAMBDA a : IF ConfigureGuard(a) THEN Release(a)
                   ELSE Let(ConfigureBody(a), LAMBDA b : Finally(b)))

\* Mutant of StartGuard: a STARTED object is started again.
StartGuard_startingOnly(m) == ~m.enabled \/ m.state = STARTING

StartGuard(m) == ~m.enabled \/ m.state \in {STARTED, STARTING}

\* the statements of the try block, each run when none before it raised
StartBody(m) ==
    Let(_set_starting(m), LAMBDA m1 :
        IF m1.exc # NoExc THEN m1
        ELSE Let(do_start(m1), LAMBDA m2 : IF m2.exc # NoExc THEN m2 ELSE _set_started(m2)))

\* The part of start() under its lock.
StartLocked(m) ==
    Let(Acquire(m),
        LAMBDA a : IF StartGuard(a) THEN Release(a)
                   ELSE Let(StartBody(a), LAMBDA b : Finally(b)))

\* Startable.start: configure() runs first, outside start's own try, when
\* the configured marker is UNCONFIGURED
start(m) ==
    IF m.configured = UNCONFIGURED
    THEN Let(configure(m), LAMBDA c : IF c.exc # NoExc THEN c ELSE StartLocked(c))
    ELSE StartLocked(m)

StopGuard(m) == m.state \in {STOPPED, STOPPING}

\* the statements of the try block, each run when none before it raised
StopBody(m) ==
    Let(_set_stopping(m), LAMBDA m1 :
        IF m1.exc # NoExc THEN m1
        ELSE Let(do_stop(m1), LAMBDA m2 : IF m2.exc # NoExc THEN m2 ELSE _set_stopped(m2)))

\* Startable.stop
stop(m) ==
    Let(Acquire(m),
        LAMBDA a : IF StopGuard(a) THEN Release(a)
                   ELSE Let(StopBody(a), LAMBDA b : Finally(b)))

Call(op, m) ==
    CASE op = "configure" -> configure(m)
      [] op = "start" -> start(m)
      [] op = "stop" -> stop(m)

(***************************************************************************)
(* Spec: one Startable, one calling thread.                                *)
(***************************************************************************)
NoCall == [op |-> "none", arg |-> 0, pre |-> NewStartable(TRUE, None), log |-> <<>>,
           exc |-> NoExc, faulted |-> FALSE]

Observed(op, arg, pre, m) ==
    [op |-> op, arg |-> arg, pre |-> pre, log |-> m.log, exc |-> m.exc,
     faulted |-> m.fault.at \in 1..m.nd]

LifeInit ==
    /\ \E en \in BOOLEAN : obj = NewStartable(en, None)
    /\ last = [NoCall EXCEPT !.pre = obj]
    /\ hist = [started |-> FALSE, afterStart |-> FALSE, hookFailed |-> FALSE,
               configureDone |-> FALSE]

\* The inputs of a call: which hook raises (the first raise ends the call, so
\* at most one does, among those the call runs), and which callback of those
\* the call delivers misbehaves, and how. A callback adds a listener only
\* while the list is shorter than MaxListeners.
HookChoices(op, o) ==
    Let(Call(op, Machine(o, {}, NoFault)),
        LAMBDA clean :
            {{}} \cup {{clean.log[i].e} :
                        i \in {j \in 1..Len(clean.log) : clean.log[j].k = "hook"}})

FaultChoices(op, o, hr) ==
    Let(Call(op, Machine(o, hr, NoFault)).nd,
        LAMBDA n :
            {NoFault}
            \cup {[at |-> a, kind |-> "raise", arg |-> 0] : a \in 1..n}
            \cup {[at |-> a, kind |-> "remove", arg |-> l] : a \in 1..n, l \in Listeners}
            \cup {[at |-> a, kind |-> "add", arg |-> l] :
                    a \in (IF Len(o.listeners) < MaxListeners THEN 1..n ELSE {}),
                    l \in Listeners})

\* The call op with inputs hr and f, on the object.
Lifecycle(op, hr, f) ==
    \E m0 \in {Machine(obj, hr, f)} :
        \E m \in {Call(op, m0)} :
            /\ obj' = ObjectOf(m)
            /\ last' = Observed(op, 0, obj, m)
            /\ UNCHANGED <<hist, mgrVars, workerVars, singleVars, threadVars, raceVars, supVars>>

\* The caller makes a call when it has taken note of the last one.
Configure ==
    /\ last.op = "none"
    /\ \E hr \in HookChoices("configure", obj) :
          \E f \in FaultChoices("configure", obj, hr) : Lifecycle("configure", hr, f)

Start ==
    /\ last.op = "none"
    /\ \E hr \in HookChoices("start", obj) :
          \E f \in FaultChoices("start", obj, hr) : Lifecycle("start", hr, f)

Stop ==
    /\ last.op = "none"
    /\ \E hr \in HookChoices("stop", obj) :
          \E f \in FaultChoices("stop", obj, hr) : Lifecycle("stop", hr, f)

AddListener ==
    \E v \in Listeners \cup {NotAListener} :
        /\ last.op = "none"
        /\ Len(obj.listeners) < MaxListeners
        /\ obj' = [obj EXCEPT !.listeners = add_listener(@, v)]
        /\ last' = [NoCall EXCEPT !.op = "add_listener", !.arg = v, !.pre = obj]
        /\ UNCHANGED <<hist, mgrVars, workerVars, singleVars, threadVars, raceVars, supVars>>

RemoveListener ==
    \E v \in Listeners \cup {NotAListener} :
        /\ last.op = "none"
        /\ obj' = [obj EXCEPT !.listeners = remove_listener(@, v)]
        /\ last' = [NoCall EXCEPT !.op = "remove_listener", !.arg = v, !.pre = obj]
        /\ UNCHANGED <<hist, mgrVars, workerVars, singleVars, threadVars, raceVars, supVars>>

\* The caller takes note of the last call and goes on to its next one.
\* hist.started: start() has been called before the last call;
\* hist.afterStart: the call before the last one was a start() that returned;
\* hist.hookFailed: the lifecycle call before the last one was ended by an
\* exception of its hook, its callbacks returning and leaving the list alone;
\* hist.configureDone: do_configure has run and returned without raising.
NextCall ==
    /\ last.op # "none"
    /\ hist' = [started |-> hist.started \/ last.op = "start",
                afterStart |-> last.op = "start" /\ last.exc = NoExc,
                hookFailed |-> IF last.op \in {"configure", "start", "stop"}
                               THEN last.exc \in Hooks /\ ~last.faulted
                               ELSE hist.hookFailed,
                configureDone |->
                    \/ hist.configureDone
                    \/ \E i \in 1..Len(last.log) :
                          /\ last.log[i].k = "hook" /\ last.log[i].e = "do_configure"
                          /\ last.log[i].x = NoExc]
    /\ last' = [NoCall EXCEPT !.pre = obj]
    /\ UNCHANGED <<obj, mgrVars, workerVars, singleVars, threadVars, raceVars, supVars>>



(***************************************************************************)
(* SpecManager: a StartableManager and its children, one calling thread.   *)
(* The manager and the children have no listeners; at most one child is    *)
(* disabled (the first).  Children are alike, so they come into use in the order of    *)
(* their ids.                                                              *)
(***************************************************************************)
\* Startable.is_running
is_running(o) == o.state = STARTED \/ o.state = STARTING

\* Mutant of add_object: the exception of the child's start() is swallowed.
add_object_swallows(m, c, hr) ==
    IF c \notin Children THEN m
    ELSE Let([m EXCEPT !.objects = IF Contains(@, c) THEN @ ELSE Append(@, c)],
             LAMBDA m1 :
                IF ~is_running(m1) THEN m1
                ELSE Let(start(Machine(set_configuration(m1.kids[c], m1.configuration),
                                       hr, NoFault)),
                         LAMBDA r :
                            [m1 EXCEPT !.kids[c] = ObjectOf(r),
                                       !.log = Append(@, [k |-> "child", s |-> m1.state,
                                                          l |-> c, e |-> "start",
                                                          x |-> r.exc,
                                                          at |-> HookNames(r.log)])]))

\* StartableManager.add_object, on the manager's machine; hr: the hooks of
\* the child that raise
add_object(m, c, hr) ==
    IF c \notin Children THEN m
    ELSE Let([m EXCEPT !.objects = IF Contains(@, c) THEN @ ELSE Append(@, c)],
             LAMBDA m1 :
                IF ~is_running(m1) THEN m1
                ELSE Let(start(Machine(set_configuration(m1.kids[c], m1.configuration),
                                       hr, NoFault)),
                         LAMBDA r :
                            [m1 EXCEPT !.kids[c] = ObjectOf(r),
                                       !.exc = IF r.exc # NoExc THEN RuntimeError ELSE NoExc,
                                       !.log = Append(@, [k |-> "child", s |-> m1.state,
                                                          l |-> c, e |-> "start",
                                                          x |-> r.exc,
                                                          at |-> HookNames(r.log)])]))

\* StartableManager.remove_object
remove_object(m, c) ==
    IF c \in Children /\ Contains(m.objects, c)
    THEN [m EXCEPT !.objects = Pop(@, IndexOf(@, c))]
    ELSE m

MNoCall == [op |-> "none", arg |-> None, log |-> <<>>, exc |-> NoExc]

MObserved(op, arg, m) == [op |-> op, arg |-> arg, log |-> m.log, exc |-> m.exc]

MgrInit ==
    /\ mgr = NewStartable(TRUE, ManagerConfig)
    /\ \E d \in {None, 1} :
          kids = [c \in Children |-> NewStartable(c # d, None)]
    /\ objects = <<>>
    /\ mlast = MNoCall

\* The hooks a child runs in the manager's call op.
HooksIn(op) ==
    CASE op = "configure" -> {"do_configure"}
      [] op = "start" -> {"do_configure", "do_start"}
      [] op = "stop" -> {"do_stop"}

\* The inputs of a call on the manager: by child, the hook that raises (the
\* first raise ends the child's call, so at most one does, among those the
\* child runs when none raises).
ChildHookChoices(op) ==
    Let(Call(op, ManagerMachine(mgr, kids, objects, [c \in Children |-> {}])),
        LAMBDA clean :
            {khr \in [Children -> {{}} \cup {{h} : h \in HooksIn(op)}] :
                \A c \in Children : \A h \in khr[c] :
                    \E i \in 1..Len(clean.log) :
                        /\ clean.log[i].k = "child" /\ clean.log[i].l = c
                        /\ Contains(clean.log[i].at, h)})

\* The call op on the manager, with input khr.
ManagerLifecycle(op, khr) ==
    \E m0 \in {ManagerMachine(mgr, kids, objects, khr)} :
        \E m \in {Call(op, m0)} :
            /\ mgr' = ObjectOf(m)
            /\ kids' = m.kids
            /\ objects' = m.objects
            /\ mlast' = MObserved(op, None, m)
            /\ UNCHANGED <<lifeVars, workerVars, singleVars, threadVars, raceVars, supVars>>

MgrConfigure ==
    /\ mlast.op = "none" /\ rpc = <<>>
    /\ \E khr \in ChildHookChoices("configure") : ManagerLifecycle("configure", khr)

MgrStart ==
    /\ mlast.op = "none" /\ rpc = <<>>
    /\ \E khr \in ChildHookChoices("start") : ManagerLifecycle("start", khr)

MgrStop ==
    /\ mlast.op = "none" /\ rpc = <<>>
    /\ \E khr \in ChildHookChoices("stop") : ManagerLifecycle("stop", khr)

\* Child c has been handed to the manager before.
InUse(c) == Contains(objects, c) \/ kids[c].state # STOPPED \/ kids[c].configured # UNCONFIGURED

AddObject ==
    /\ mlast.op = "none" /\ rpc = <<>>
    /\ \E c \in Children \cup {None} :
          /\ \A b \in Children : b < c => InUse(b)
          /\ \E hr \in (IF c \in Children /\ is_running(mgr)
                     THEN {{}} \cup {{h} : h \in HooksIn("start")} ELSE {{}}) :
            \E m0 \in {ManagerMachine(mgr, kids, objects, [k \in Children |-> {}])} :
              \E m \in {add_object(m0, c, hr)} :
                /\ kids' = m.kids
                /\ objects' = m.objects
                /\ mlast' = MObserved("add_object", c, m)
                /\ UNCHANGED <<mgr, lifeVars, workerVars, singleVars, threadVars, raceVars, supVars>>

RemoveObject ==
    /\ mlast.op = "none" /\ rpc = <<>>
    /\ \E c \in Children \cup {None} :
          \E m0 \in {ManagerMachine(mgr, kids, objects, [k \in Children |-> {}])} :
            \E m \in {remove_object(m0, c)} :
                /\ objects' = m.objects
                /\ mlast' = MObserved("remove_object", c, m)
                /\ UNCHANGED <<mgr, kids, lifeVars, workerVars, singleVars, threadVars, raceVars, supVars>>

\* The caller takes note of the last call and goes on to its next one.
MgrNextCall ==
    /\ mlast.op # "none"
    /\ mlast' = MNoCall
    /\ UNCHANGED <<mgr, kids, objects, lifeVars, workerVars, singleVars, threadVars, raceVars, supVars>>

(***************************************************************************)
(* SpecWorker: a configured ProcessThreadExecutor (do_configure has made   *)
(* the process object and the queue), the threads that submit tasks and    *)
(* start and stop it, and its worker process running subprocess_entry.     *)
(***************************************************************************)
\* What is put into the queue: an AbstractMessage, the ShutdownMessage, or
\* an object that is not an AbstractMessage.
Message(i) == [kind |-> "message", id |-> i]
ShutdownMessage == [kind |-> "shutdown", id |-> None]
OtherObject == [kind |-> "other", id |-> None]
Items == {Message(i) : i \in 1..NumMessages} \cup {ShutdownMessage, OtherObject}

\* Mutant of Dispatch: the AbstractMessage test comes first, and
\* ShutdownMessage is an AbstractMessage.
Dispatch_messageFirst(item) ==
    IF item.kind \in {"message", "shutdown"} THEN "execute"
    ELSE "ignore"

\* if isinstance(message_obj, ShutdownMessage): break
\* elif isinstance(message_obj, AbstractMessage): _handler.execute_module(...)
Dispatch(item) ==
    IF item.kind = "shutdown" THEN "break"
    ELSE IF item.kind = "message" THEN "execute"
    ELSE "ignore"

\* Mutant of AfterExecute: the exception of execute_module leaves the loop.
AfterExecute_leaves(raised) == IF raised THEN "finally" ELSE "loop"

\* try: ... execute_module(message_obj) except Exception as ex:
\* logging.exception(ex): the loop goes on whether or not it raised
AfterExecute(raised) == "loop"

WorkerInit ==
    /\ queue = <<>>
    /\ enqueued = <<>>
    /\ executed = <<>>
    /\ wpc = "unborn"
    /\ wlast = "none"
    /\ engine = [started |-> 0, stopped |-> 0]
    /\ sup = "configured"

\* ProcessThreadExecutor.submit_task, from any thread of the owning process
SubmitTask ==
    /\ Len(enqueued) < MaxPuts
    /\ \E item \in Items \ {ShutdownMessage} :
          /\ queue' = Append(queue, item)
          /\ enqueued' = Append(enqueued, item)
    /\ UNCHANGED <<executed, wpc, wlast, engine, sup, lifeVars, mgrVars, singleVars, threadVars, raceVars, supVars>>

\* A caller submits a ShutdownMessage itself.
SubmitShutdown ==
    /\ Len(enqueued) < MaxPuts
    /\ queue' = Append(queue, ShutdownMessage)
    /\ enqueued' = Append(enqueued, ShutdownMessage)
    /\ UNCHANGED <<executed, wpc, wlast, engine, sup, lifeVars, mgrVars, singleVars, threadVars, raceVars, supVars>>

\* BaseProcessExecutor.do_start: self._process.start()
ExecutorStart ==
    /\ sup = "configured"
    /\ sup' = "started"
    /\ wpc' = "setup"
    /\ UNCHANGED <<queue, enqueued, executed, wlast, engine, lifeVars, mgrVars, singleVars, threadVars, raceVars, supVars>>

\* Mutant of ExecutorStopSubmit: do_stop calls its super's do_stop first, so
\* the process is terminated before the ShutdownMessage is put.
ExecutorStopSubmit_terminateFirst ==
    /\ sup = "started"
    /\ sup' = "stopping"
    /\ wpc' = IF wpc \in {"setup", "loop", "finally"} THEN "terminated" ELSE wpc
    /\ UNCHANGED <<queue, enqueued, executed, wlast, engine, lifeVars, mgrVars, singleVars, threadVars, raceVars, supVars>>

\* ProcessThreadExecutor.do_stop, first statement:
\* self.submit_task(ShutdownMessage())
ExecutorStopSubmit ==
    /\ sup = "started"
    /\ sup' = "stopping"
    /\ queue' = Append(queue, ShutdownMessage)
    /\ enqueued' = Append(enqueued, ShutdownMessage)
    /\ UNCHANGED <<executed, wpc, wlast, engine, lifeVars, mgrVars, singleVars, threadVars, raceVars, supVars>>

\* ProcessThreadExecutor.do_stop, second statement:
\* BaseProcessExecutor.do_stop: self._process.terminate()
ExecutorStopTerminate ==
    /\ sup = "stopping"
    /\ sup' = "stopped"
    /\ wpc' = IF wpc \in {"setup", "loop", "finally"} THEN "terminated" ELSE wpc
    /\ UNCHANGED <<queue, enqueued, executed, wlast, engine, lifeVars, mgrVars, singleVars, threadVars, raceVars, supVars>>

\* subprocess_entry up to the loop: the engine is made, configured, started
WorkerSetup ==
    /\ wpc = "setup"
    /\ wpc' = "loop"
    /\ engine' = [engine EXCEPT !.started = @ + 1]
    /\ wlast' = "setup"
    /\ UNCHANGED <<queue, enqueued, executed, sup, lifeVars, mgrVars, singleVars, threadVars, raceVars, supVars>>

\* One turn of the loop on an empty queue: get times out (Empty), sleep
WorkerEmpty ==
    /\ wpc = "loop"
    /\ queue = <<>>
    /\ wlast # "empty"
    /\ wlast' = "empty"
    /\ UNCHANGED <<queue, enqueued, executed, wpc, engine, sup, lifeVars, mgrVars, singleVars, threadVars, raceVars, supVars>>

\* One turn of the loop that gets an item: break on the ShutdownMessage,
\* execute_module on another AbstractMessage (it returns or raises), nothing
\* on any other object
WorkerGet ==
    /\ wpc = "loop"
    /\ queue # <<>>
    /\ queue' = Tail(queue)
    /\ \/ /\ Dispatch(Head(queue)) = "break"
          /\ wpc' = "finally"
          /\ wlast' = "break"
          /\ UNCHANGED executed
       \/ /\ Dispatch(Head(queue)) = "execute"
          /\ \E raised \in BOOLEAN :
                /\ executed' = Append(executed, [item |-> Head(queue), raised |-> raised])
                /\ wpc' = AfterExecute(raised)
                /\ wlast' = IF raised THEN "raised" ELSE "executed"
       \/ /\ Dispatch(Head(queue)) = "ignore"
          /\ wlast' = "ignored"
          /\ UNCHANGED <<executed, wpc>>
    /\ UNCHANGED <<enqueued, engine, sup, lifeVars, mgrVars, singleVars, threadVars, raceVars, supVars>>

\* finally: _handler.stop(), and the process ends
WorkerFinally ==
    /\ wpc = "finally"
    /\ wpc' = "exited"
    /\ engine' = [engine EXCEPT !.stopped = @ + 1]
    /\ wlast' = "stop"
    /\ UNCHANGED <<queue, enqueued, executed, sup, lifeVars, mgrVars, singleVars, threadVars, raceVars, supVars>>

(***************************************************************************)
(* SpecSingleton: threads calling LifeCycleManager.get_default_instance(), *)
(* one statement of the method per step.  An instance is named by its      *)
(* position in made; made[i] counts the runs of __init__ on instance i.    *)
(***************************************************************************)
Threads == 1..NumThreads

\* Mutant of CanAcquire: the lock does not keep a second thread out.
CanAcquire_always(lock, t) == TRUE

\* RLock.acquire(blocking=True) returns when the lock is free or the caller
\* already owns it
CanAcquire(lock, t) == lock.owner \in {None, t}

SingleInit ==
    /\ VM_DEFAULT = None
    /\ SINGLETON_LOCK = [owner |-> None, depth |-> 0]
    /\ tpc = [t \in Threads |-> "idle"]
    /\ tret = [t \in Threads |-> <<>>]
    /\ made = <<>>

\* a thread calls get_default_instance() and reaches the acquire
CallGetDefault(t) ==
    /\ tpc[t] = "idle"
    /\ Len(tret[t]) < MaxCalls
    /\ tpc' = [tpc EXCEPT ![t] = "acquire"]
    /\ UNCHANGED <<VM_DEFAULT, SINGLETON_LOCK, tret, made, lifeVars, mgrVars, workerVars, threadVars, raceVars, supVars>>

\* cls.SINGLETON_LOCK.acquire(blocking=True)
AcquireSingleton(t) ==
    /\ tpc[t] = "acquire"
    /\ CanAcquire(SINGLETON_LOCK, t)
    /\ SINGLETON_LOCK' = [owner |-> t, depth |-> SINGLETON_LOCK.depth + 1]
    /\ tpc' = [tpc EXCEPT ![t] = "check"]
    /\ UNCHANGED <<VM_DEFAULT, tret, made, lifeVars, mgrVars, workerVars, threadVars, raceVars, supVars>>

\* if cls.VM_DEFAULT is None:
CheckDefault(t) ==
    /\ tpc[t] = "check"
    /\ tpc' = [tpc EXCEPT ![t] = IF VM_DEFAULT = None THEN "new" ELSE "return"]
    /\ UNCHANGED <<VM_DEFAULT, SINGLETON_LOCK, tret, made, lifeVars, mgrVars, workerVars, threadVars, raceVars, supVars>>

\* cls.VM_DEFAULT = object.__new__(cls)
NewDefault(t) ==
    /\ tpc[t] = "new"
    /\ made' = Append(made, 0)
    /\ VM_DEFAULT' = Len(made) + 1
    /\ tpc' = [tpc EXCEPT ![t] = "init"]
    /\ UNCHANGED <<SINGLETON_LOCK, tret, lifeVars, mgrVars, workerVars, threadVars, raceVars, supVars>>

\* cls.VM_DEFAULT.__init__()
InitDefault(t) ==
    /\ tpc[t] = "init"
    /\ made' = [made EXCEPT ![VM_DEFAULT] = @ + 1]
    /\ tpc' = [tpc EXCEPT ![t] = "return"]
    /\ UNCHANGED <<VM_DEFAULT, SINGLETON_LOCK, tret, lifeVars, mgrVars, workerVars, threadVars, raceVars, supVars>>

\* return cls.VM_DEFAULT: the value is read here, before the finally clause
ReturnDefault(t) ==
    /\ tpc[t] = "return"
    /\ tret' = [tret EXCEPT ![t] = Append(@, [value |-> VM_DEFAULT,
                                               inits |-> made[VM_DEFAULT]])]
    /\ tpc' = [tpc EXCEPT ![t] = "release"]
    /\ UNCHANGED <<VM_DEFAULT, SINGLETON_LOCK, made, lifeVars, mgrVars, workerVars, threadVars, raceVars, supVars>>

\* finally: cls.SINGLETON_LOCK.release()
ReleaseSingleton(t) ==
    /\ tpc[t] = "release"
    /\ SINGLETON_LOCK' =
          IF SINGLETON_LOCK.depth <= 1 THEN [owner |-> None, depth |-> 0]
          ELSE [SINGLETON_LOCK EXCEPT !.depth = @ - 1]
    /\ tpc' = [tpc EXCEPT ![t] = "idle"]
    /\ UNCHANGED <<VM_DEFAULT, tret, made, lifeVars, mgrVars, workerVars, threadVars, raceVars, supVars>>

(***************************************************************************)
(* SpecThreads: threads calling start() on one fresh enabled Startable     *)
(* whose hooks and callbacks return, one statement per step.  The object's *)
(* RLock has an owner and a depth; the listeners are registered before.    *)
(***************************************************************************)
Starters == 1..NumStarters

SharedStartable(ls) ==
    [state |-> STOPPED, configured |-> UNCONFIGURED, enabled |-> TRUE,
     listeners |-> ls, lock |-> [owner |-> None, depth |-> 0]]

ThreadInit ==
    /\ \E ls \in {<<>>, <<1>>, <<1, 2>>} : cobj = SharedStartable(ls)
    /\ cpc = [t \in Starters |-> "start"]
    /\ clog = <<>>

\* The statement after the one at pc, when no guard decides otherwise.
NextPc(pc) ==
    CASE pc = "configure.acquire" -> "configure.guard"
      [] pc = "_set_configuring.state" -> "_set_configuring.marker"
      [] pc = "_set_configuring.marker" -> "_set_configuring.notify"
      [] pc = "_set_configuring.notify" -> "do_configure.begin"
      [] pc = "do_configure.begin" -> "do_configure.end"
      [] pc = "do_configure.end" -> "_set_configured.state"
      [] pc = "_set_configured.state" -> "_set_configured.marker"
      [] pc = "_set_configured.marker" -> "_set_configured.notify"
      [] pc = "_set_configured.notify" -> "configure.release"
      [] pc = "configure.release" -> "start.acquire"
      [] pc = "start.acquire" -> "start.guard"
      [] pc = "_set_starting.state" -> "_set_starting.notify"
      [] pc = "_set_starting.notify" -> "do_start.begin"
      [] pc = "do_start.begin" -> "do_start.end"
      [] pc = "do_start.end" -> "_set_started.state"
      [] pc = "_set_started.state" -> "_set_started.notify"
      [] pc = "_set_started.notify" -> "start.release"
      [] pc = "start.release" -> "done"

\* the value a _set_* method assigns to _state, and its event
StateOf(pc) ==
    CASE pc = "_set_configuring.state" -> CONFIGURING
      [] pc = "_set_configured.state" -> CONFIGURED
      [] pc = "_set_starting.state" -> STARTING
      [] pc = "_set_started.state" -> STARTED

EventOf(pc) ==
    CASE pc = "_set_configuring.notify" -> "configuring"
      [] pc = "_set_configured.notify" -> "configured"
      [] pc = "_set_starting.notify" -> "starting"
      [] pc = "_set_started.notify" -> "started"

HookOf(pc) ==
    IF pc \in {"do_configure.begin", "do_configure.end"} THEN "do_configure"
    ELSE "do_start"

Goto(t, pc) == cpc' = [cpc EXCEPT ![t] = pc]

\* start(), line 178: the configured marker is read without the lock
StartRead(t) ==
    /\ cpc[t] = "start"
    /\ Goto(t, IF cobj.configured = UNCONFIGURED THEN "configure.acquire"
                ELSE "start.acquire")
    /\ UNCHANGED <<cobj, clog, lifeVars, mgrVars, workerVars, singleVars, raceVars, supVars>>

\* self._lock.acquire(blocking=True), in configure() and in start()
LockAcquire(t) ==
    /\ cpc[t] \in {"configure.acquire", "start.acquire"}
    /\ CanAcquire(cobj.lock, t)
    /\ cobj' = [cobj EXCEPT !.lock = [owner |-> t, depth |-> @.depth + 1]]
    /\ Goto(t, NextPc(cpc[t]))
    /\ UNCHANGED <<clog, lifeVars, mgrVars, workerVars, singleVars, raceVars, supVars>>

\* the guards of configure() and of start(): return, or go on
GuardStep(t) ==
    /\ cpc[t] \in {"configure.guard", "start.guard"}
    /\ Goto(t, IF cpc[t] = "configure.guard"
                THEN (IF ConfigureGuard(cobj) THEN "configure.release"
                      ELSE "_set_configuring.state")
                ELSE (IF StartGuard(cobj) THEN "start.release"
                      ELSE "_set_starting.state"))
    /\ UNCHANGED <<cobj, clog, lifeVars, mgrVars, workerVars, singleVars, raceVars, supVars>>

\* self._state = ...
SetState(t) ==
    /\ cpc[t] \in {"_set_configuring.state", "_set_configured.state",
                    "_set_starting.state", "_set_started.state"}
    /\ cobj' = [cobj EXCEPT !.state = StateOf(cpc[t])]
    /\ Goto(t, NextPc(cpc[t]))
    /\ UNCHANGED <<clog, lifeVars, mgrVars, workerVars, singleVars, raceVars, supVars>>

\* self._configured = self._state
SetMarker(t) ==
    /\ cpc[t] \in {"_set_configuring.marker", "_set_configured.marker"}
    /\ cobj' = [cobj EXCEPT !.configured = cobj.state]
    /\ Goto(t, NextPc(cpc[t]))
    /\ UNCHANGED <<clog, lifeVars, mgrVars, workerVars, singleVars, raceVars, supVars>>

\* for listener in self._listeners: listener.on_<event>(self, ...)
NotifyAll(t) ==
    /\ cpc[t] \in {"_set_configuring.notify", "_set_configured.notify",
                    "_set_starting.notify", "_set_started.notify"}
    /\ clog' = clog \o [i \in 1..Len(cobj.listeners) |->
                            [k |-> "ev", l |-> cobj.listeners[i],
                             e |-> EventOf(cpc[t]), t |-> t]]
    /\ Goto(t, NextPc(cpc[t]))
    /\ UNCHANGED <<cobj, lifeVars, mgrVars, workerVars, singleVars, raceVars, supVars>>

\* self.do_configure() and self.do_start() are entered ...
HookBegin(t) ==
    /\ cpc[t] \in {"do_configure.begin", "do_start.begin"}
    /\ clog' = Append(clog, [k |-> "begin", l |-> 0, e |-> HookOf(cpc[t]), t |-> t])
    /\ Goto(t, NextPc(cpc[t]))
    /\ UNCHANGED <<cobj, lifeVars, mgrVars, workerVars, singleVars, raceVars, supVars>>

\* ... and return
HookEnd(t) ==
    /\ cpc[t] \in {"do_configure.end", "do_start.end"}
    /\ clog' = Append(clog, [k |-> "end", l |-> 0, e |-> HookOf(cpc[t]), t |-> t])
    /\ Goto(t, NextPc(cpc[t]))
    /\ UNCHANGED <<cobj, lifeVars, mgrVars, workerVars, singleVars, raceVars, supVars>>

\* finally: self._lock.release(); configure() returns into start()
LockRelease(t) ==
    /\ cpc[t] \in {"configure.release", "start.release"}
    /\ cobj' = [cobj EXCEPT !.lock =
                    IF @.depth <= 1 THEN [owner |-> None, depth |-> 0]
                    ELSE [@ EXCEPT !.depth = @ - 1]]
    /\ Goto(t, NextPc(cpc[t]))
    /\ UNCHANGED <<clog, lifeVars, mgrVars, workerVars, singleVars, raceVars, supVars>>

(***************************************************************************)
(* SpecRace: SpecManager, and in it one thread calling stop() on the       *)
(* manager while another calls add_object(c).  add_object takes no lock;   *)
(* the manager's stop() is taken statement by statement, each call on a    *)
(* child as one step (the child's own lock serialises them).  The          *)
(* children's hooks return.  rpc.log holds the state the manager was in    *)
(* when the two calls began, then the calls made on children.              *)
(***************************************************************************)
RaceEntry(s, c, op) ==
    [k |-> "child", s |-> s, l |-> c, e |-> op, x |-> NoExc, at |-> <<>>]

\* the two threads make their calls
RaceBegin ==
    /\ mlast.op = "none"
    /\ rpc = <<>>
    /\ \E c \in Children :
          /\ \A b \in Children : b < c => InUse(b)
          /\ rpc' = [stop |-> "acquire", i |-> 1, add |-> "append", c |-> c,
                     log |-> <<RaceEntry(mgr.state, c, "begin")>>]
    /\ UNCHANGED <<mgrVars, lifeVars, workerVars, singleVars, threadVars, supVars>>

\* stop(): the lock is taken; the guard returns, or _set_stopping
StopEnter ==
    /\ rpc # <<>>
    /\ rpc.stop = "acquire"
    /\ IF StopGuard(mgr)
       THEN /\ rpc' = [rpc EXCEPT !.stop = "returned"]
            /\ UNCHANGED mgr
       ELSE /\ rpc' = [rpc EXCEPT !.stop = "loop"]
            /\ mgr' = [mgr EXCEPT !.state = STOPPING, !.lock = @ + 1]
    /\ UNCHANGED <<kids, objects, mlast, lifeVars, workerVars, singleVars, threadVars, supVars>>

\* do_stop: one turn of 'for item in self._startable_objects: item.stop()'
StopChild ==
    /\ rpc # <<>>
    /\ rpc.stop = "loop"
    /\ rpc.i <= Len(objects)
    /\ \E r \in {stop(Machine(kids[objects[rpc.i]], {}, NoFault))} :
          kids' = [kids EXCEPT ![objects[rpc.i]] = ObjectOf(r)]
    /\ rpc' = [rpc EXCEPT !.i = @ + 1,
                          !.log = Append(@, RaceEntry(mgr.state, objects[rpc.i], "stop"))]
    /\ UNCHANGED <<mgr, objects, mlast, lifeVars, workerVars, singleVars, threadVars, supVars>>

\* the loop has passed the end of the list: _set_stopped, release, return
StopLeave ==
    /\ rpc # <<>>
    /\ rpc.stop = "loop"
    /\ rpc.i > Len(objects)
    /\ mgr' = [mgr EXCEPT !.state = STOPPED, !.lock = @ - 1]
    /\ rpc' = [rpc EXCEPT !.stop = "returned"]
    /\ UNCHANGED <<kids, objects, mlast, lifeVars, workerVars, singleVars, threadVars, supVars>>

\* add_object: if obj not in self._startable_objects: append
AddAppend ==
    /\ rpc # <<>>
    /\ rpc.add = "append"
    /\ objects' = IF Contains(objects, rpc.c) THEN objects ELSE Append(objects, rpc.c)
    /\ rpc' = [rpc EXCEPT !.add = "is_running"]
    /\ UNCHANGED <<mgr, kids, mlast, lifeVars, workerVars, singleVars, threadVars, supVars>>

\* add_object: if self.is_running():
AddCheck ==
    /\ rpc # <<>>
    /\ rpc.add = "is_running"
    /\ rpc' = [rpc EXCEPT !.add = IF is_running(mgr) THEN "start" ELSE "returned"]
    /\ UNCHANGED <<mgrVars, lifeVars, workerVars, singleVars, threadVars, supVars>>

\* add_object: obj.set_configuration(self.get_configuration()); obj.start()
AddStart ==
    /\ rpc # <<>>
    /\ rpc.add = "start"
    /\ \E r \in {start(Machine(set_configuration(kids[rpc.c], mgr.configuration),
                                {}, NoFault))} :
          kids' = [kids EXCEPT ![rpc.c] = ObjectOf(r)]
    /\ rpc' = [rpc EXCEPT !.add = "returned",
                          !.log = Append(@, RaceEntry(mgr.state, rpc.c, "start"))]
    /\ UNCHANGED <<mgr, objects, mlast, lifeVars, workerVars, singleVars, threadVars, supVars>>

\* both calls have returned
RaceEnd ==
    /\ rpc # <<>>
    /\ rpc.stop = "returned" /\ rpc.add = "returned"
    /\ mlast' = [op |-> "race", arg |-> rpc.c, log |-> rpc.log, exc |-> NoExc]
    /\ rpc' = <<>>
    /\ UNCHANGED <<mgr, kids, objects, lifeVars, workerVars, singleVars, threadVars, supVars>>

(***************************************************************************)
(* SpecSupervisor: one ProcessThreadExecutor, a Startable without          *)
(* listeners, taken through configure(), start() and stop() by one thread, *)
(* with submit_task calls and its worker process taking items in between.  *)
(* sproc is the multiprocessing.Process handle: made by do_configure,      *)
(* started once by Process.start() (a second start() of a handle raises),  *)
(* alive until the worker takes a ShutdownMessage or is terminated         *)
(* (terminate() of a handle never started raises).                         *)
(***************************************************************************)
NoProcess == [made |-> FALSE, started |-> FALSE, alive |-> FALSE]
NewProcess == [made |-> TRUE, started |-> FALSE, alive |-> FALSE]
NoQueue == [made |-> FALSE, items |-> <<>>, puts |-> 0]
NewQueue == [made |-> TRUE, items |-> <<>>, puts |-> 0]

\* slast.was and slast.phase: the phase before and after the call, where
\* phase 1 is entered by a start() that returned and phase 2 by a stop()
\* that returned after it.
SNoCall == [op |-> "none", exc |-> NoExc, n |-> 0, was |-> 0, phase |-> 0]

SupInit ==
    /\ sobj = NewStartable(TRUE, None)
    /\ sproc = NoProcess
    /\ squeue = NoQueue
    /\ slast = SNoCall

\* The hooks of the call op that raise, from the handle they find:
\*   do_start: self._process.start() on a handle that was started before
\*             (not the one do_configure makes in this very call);
\*   do_stop:  self._process.terminate() on a handle never started.
SupRaising(op) ==
    {h \in {"do_start"} :
        /\ ~(op = "start" /\ sobj.configured = UNCONFIGURED)
        /\ (~sproc.made \/ sproc.started)}
    \cup {h \in {"do_stop"} : ~sproc.made \/ ~sproc.started}

SupRan(log, h) == \E i \in 1..Len(log) : log[i].k = "hook" /\ log[i].e = h

SupReturned(log, h) ==
    \E i \in 1..Len(log) : log[i].k = "hook" /\ log[i].e = h /\ log[i].x = NoExc

\* BaseProcessExecutor.do_configure and ProcessThreadExecutor.do_configure:
\* a new Process handle and a new Queue
SupConfigured(log, p) == IF SupRan(log, "do_configure") THEN NewProcess ELSE p
SupQueueMade(log, q) == IF SupRan(log, "do_configure") THEN NewQueue ELSE q

\* BaseProcessExecutor.do_start: self._process.start()
SupStarted(log, p) ==
    IF SupReturned(log, "do_start") THEN [p EXCEPT !.started = TRUE, !.alive = TRUE]
    ELSE p

\* ProcessThreadExecutor.do_stop: submit_task(ShutdownMessage()), ...
SupSentinelPut(log, q) ==
    IF SupRan(log, "do_stop") /\ q.made
    THEN [q EXCEPT !.items = Append(@, ShutdownMessage)]
    ELSE q

\* ... and BaseProcessExecutor.do_stop: self._process.terminate()
SupTerminated(log, p) ==
    IF SupReturned(log, "do_stop") THEN [p EXCEPT !.alive = FALSE] ELSE p

\* The items a live worker can have taken between the put of the
\* ShutdownMessage and the terminate: it takes nothing behind a
\* ShutdownMessage.
Takes(p, items) ==
    IF ~p.alive THEN {0}
    ELSE {n \in 0..Len(items) : \A j \in 1..(n - 1) : items[j] # ShutdownMessage}

SupPhase(op, exc) ==
    IF op = "start" /\ exc = NoExc /\ slast.phase = 0 THEN 1
    ELSE IF op = "stop" /\ exc = NoExc /\ slast.phase = 1 THEN 2
    ELSE slast.phase

\* The call op on the supervisor.
SupLifecycle(op) ==
    \E r \in {Call(op, Machine(sobj, SupRaising(op), NoFault))} :
      \E q \in {SupSentinelPut(r.log, SupQueueMade(r.log, squeue))} :
        \E p \in {SupStarted(r.log, SupConfigured(r.log, sproc))} :
          \E n \in (IF SupRan(r.log, "do_stop") THEN Takes(p, q.items) ELSE {0}) :
            /\ sobj' = ObjectOf(r)
            /\ squeue' = [q EXCEPT !.items = SubSeq(@, n + 1, Len(@))]
            /\ sproc' = SupTerminated(r.log, p)
            /\ slast' = [op |-> op, exc |-> r.exc, n |-> slast.n + 1,
                         was |-> slast.phase, phase |-> SupPhase(op, r.exc)]
            /\ UNCHANGED <<lifeVars, mgrVars, workerVars, singleVars, threadVars,
                           raceVars>>

SupConfigure ==
    /\ slast.n < MaxSupCalls
    /\ SupLifecycle("configure")

SupStart ==
    /\ slast.n < MaxSupCalls
    /\ SupLifecycle("start")

SupStop ==
    /\ slast.n < MaxSupCalls
    /\ SupLifecycle("stop")

\* ProcessThreadExecutor.submit_task, once the queue is made
SupSubmit ==
    /\ squeue.made
    /\ squeue.puts < MaxSubmits
    /\ \E i \in 1..NumMessages :
          squeue' = [squeue EXCEPT !.items = Append(@, Message(i)), !.puts = @ + 1]
    /\ UNCHANGED <<sobj, sproc, slast, lifeVars, mgrVars, workerVars, singleVars,
                   threadVars, raceVars>>

\* The live worker takes the head of the queue; the ShutdownMessage ends it.
SupWorkerTake ==
    /\ sproc.alive
    /\ squeue.items # <<>>
    /\ squeue' = [squeue EXCEPT !.items = Tail(@)]
    /\ sproc' = [sproc EXCEPT !.alive = Head(squeue.items) # ShutdownMessage]
    /\ UNCHANGED <<sobj, slast, lifeVars, mgrVars, workerVars, singleVars,
                   threadVars, raceVars>>

(***************************************************************************)
(* Each specification leaves the variables of the others at rest.          *)
(***************************************************************************)
LifeIdle ==
    /\ obj = NewStartable(TRUE, None)
    /\ last = NoCall
    /\ hist = [started |-> FALSE, afterStart |-> FALSE, hookFailed |-> FALSE,
               configureDone |-> FALSE]

MgrIdle ==
    /\ mgr = NewStartable(TRUE, ManagerConfig)
    /\ kids = <<>>
    /\ objects = <<>>
    /\ mlast = MNoCall

WorkerIdle ==
    /\ queue = <<>>
    /\ enqueued = <<>>
    /\ executed = <<>>
    /\ wpc = "unborn"
    /\ wlast = "none"
    /\ engine = [started |-> 0, stopped |-> 0]
    /\ sup = "configured"

SingleIdle ==
    /\ VM_DEFAULT = None
    /\ SINGLETON_LOCK = [owner |-> None, depth |-> 0]
    /\ tpc = <<>>
    /\ tret = <<>>
    /\ made = <<>>

ThreadIdle ==
    /\ cobj = SharedStartable(<<>>)
    /\ cpc = <<>>
    /\ clog = <<>>

RaceIdle == rpc = <<>>

SupIdle ==
    /\ sobj = NewStartable(TRUE, None)
    /\ sproc = NoProcess
    /\ squeue = NoQueue
    /\ slast = SNoCall

Init == LifeInit /\ MgrIdle /\ WorkerIdle /\ SingleIdle /\ ThreadIdle /\ RaceIdle /\ SupIdle

Next == Configure \/ Start \/ Stop \/ AddListener \/ RemoveListener \/ NextCall

Spec == Init /\ [][Next]_vars

ManagerInit == MgrInit /\ LifeIdle /\ WorkerIdle /\ SingleIdle /\ ThreadIdle /\ RaceIdle /\ SupIdle

ManagerNext ==
    MgrConfigure \/ MgrStart \/ MgrStop \/ AddObject \/ RemoveObject \/ MgrNextCall

SpecManager == ManagerInit /\ [][ManagerNext]_vars

WorkerSpecInit ==
    WorkerInit /\ LifeIdle /\ MgrIdle /\ SingleIdle /\ ThreadIdle /\ RaceIdle /\ SupIdle

WorkerNext ==
    \/ SubmitTask \/ SubmitShutdown
    \/ ExecutorStart \/ ExecutorStopSubmit \/ ExecutorStopTerminate
    \/ WorkerSetup \/ WorkerEmpty \/ WorkerGet \/ WorkerFinally

SpecWorker == WorkerSpecInit /\ [][WorkerNext]_vars

SingletonInit ==
    SingleInit /\ LifeIdle /\ MgrIdle /\ WorkerIdle /\ ThreadIdle /\ RaceIdle /\ SupIdle

SingletonNext ==
    \E t \in Threads :
        \/ CallGetDefault(t) \/ AcquireSingleton(t) \/ CheckDefault(t)
        \/ NewDefault(t) \/ InitDefault(t) \/ ReturnDefault(t)
        \/ ReleaseSingleton(t)

SpecSingleton == SingletonInit /\ [][SingletonNext]_vars

ThreadsInit ==
    ThreadInit /\ LifeIdle /\ MgrIdle /\ WorkerIdle /\ SingleIdle /\ RaceIdle /\ SupIdle

ThreadsNext ==
    \E t \in Starters :
        \/ StartRead(t) \/ LockAcquire(t) \/ GuardStep(t) \/ SetState(t)
        \/ SetMarker(t) \/ NotifyAll(t) \/ HookBegin(t) \/ HookEnd(t)
        \/ LockRelease(t)

SpecThreads == ThreadsInit /\ [][ThreadsNext]_vars

RaceNext ==
    \/ MgrConfigure \/ MgrStart \/ MgrStop \/ AddObject \/ RemoveObject
    \/ MgrNextCall
    \/ RaceBegin \/ StopEnter \/ StopChild \/ StopLeave
    \/ AddAppend \/ AddCheck \/ AddStart \/ RaceEnd

SpecRace == ManagerInit /\ [][RaceNext]_vars

SupervisorInit ==
    SupInit /\ LifeIdle /\ MgrIdle /\ WorkerIdle /\ SingleIdle /\ ThreadIdle
    /\ RaceIdle

SupervisorNext ==
    SupConfigure \/ SupStart \/ SupStop \/ SupSubmit \/ SupWorkerTake

SpecSupervisor == SupervisorInit /\ [][SupervisorNext]_vars

(***************************************************************************)
(* Reading the log of the last call.                                       *)
(***************************************************************************)
LifeOps == {"configure", "start", "stop"}

\* how often listener l was called with event ev
Deliveries(log, l, ev) ==
    Cardinality({i \in 1..Len(log) : log[i].k = "ev" /\ log[i].l = l /\ log[i].e = ev})

\* how often hook h was run
HookRuns(log, h) ==
    Cardinality({i \in 1..Len(log) : log[i].k = "hook" /\ log[i].e = h})

\* the exceptions raised by the hooks run
HookExcs(log) ==
    {log[i].x : i \in {j \in 1..Len(log) : log[j].k = "hook" /\ log[j].x # NoExc}}

\* the events whose notification was begun
EventsOf(log) == {log[i].e : i \in {j \in 1..Len(log) : log[j].k = "set"}}

\* the listeners called from entry i on, up to the next entry that is no callback
RECURSIVE CalledFrom(_, _)
CalledFrom(log, i) ==
    IF i > Len(log) \/ log[i].k # "ev" THEN <<>>
    ELSE <<log[i].l>> \o CalledFrom(log, i + 1)

IsPrefix(s, t) == Len(s) <= Len(t) /\ \A i \in 1..Len(s) : s[i] = t[i]

\* the main state before log entry i of the last call
StateBefore(i) == IF i = 1 THEN last.pre.state ELSE last.log[i - 1].s

(***************************************************************************)
(* C1. Every change of the main state follows an edge of                   *)
(* UNCONFIGURED->CONFIGURING->CONFIGURED or of                             *)
(* STOPPED->STARTING->STARTED->STOPPING->STOPPED, and FAILED is entered    *)
(* only on an exception raised by do_configure, do_start or do_stop.       *)
(* The claim is read generously: a never-configured STOPPED object may     *)
(* enter CONFIGURING, a CONFIGURED object may enter STARTING, and a FAILED *)
(* object may enter CONFIGURING, STARTING or STOPPING.  It names           *)
(* STARTED->CONFIGURING and CONFIGURED->STOPPING as edges never taken.     *)
(***************************************************************************)
PathEdges ==
    {<<UNCONFIGURED, CONFIGURING>>, <<CONFIGURING, CONFIGURED>>,
     <<STOPPED, STARTING>>, <<STARTING, STARTED>>, <<STARTED, STOPPING>>,
     <<STOPPING, STOPPED>>}

EntryEdges ==
    {<<CONFIGURED, STARTING>>, <<FAILED, CONFIGURING>>, <<FAILED, STARTING>>,
     <<FAILED, STOPPING>>}

C1_ValidPath ==
    \A i \in 1..Len(last.log) :
        LET from == StateBefore(i)
            to == last.log[i].s
        IN  (last.log[i].k = "set" /\ from # to) =>
                IF to = FAILED THEN last.log[i].x \in Hooks
                ELSE \/ <<from, to>> \in PathEdges \cup EntryEdges
                     \/ /\ <<from, to>> = <<STOPPED, CONFIGURING>>
                        /\ last.pre.configured = UNCONFIGURED

(***************************************************************************)
(* C2. On an enabled Startable, when no hook and no listener callback      *)
(* raises and no callback changes the listener list: a start() made on an  *)
(* object that is not running returns with the object STARTED, having run  *)
(* do_start once and called every registered listener once with starting   *)
(* and once with started (once per registration); and a start() that       *)
(* follows a start() that returned runs no hook, calls no listener and     *)
(* changes nothing.                                                        *)
(***************************************************************************)
C2_StartTwice ==
    (last.op = "start" /\ obj.enabled) =>
        /\ (/\ HookExcs(last.log) = {}
            /\ ~last.faulted
            /\ last.pre.state \notin {STARTED, STARTING}) =>
                /\ last.exc = NoExc
                /\ obj.state = STARTED
                /\ HookRuns(last.log, "do_start") = 1
                /\ \A l \in Listeners :
                      /\ Deliveries(last.log, l, "starting") = Count(obj.listeners, l)
                      /\ Deliveries(last.log, l, "started") = Count(obj.listeners, l)
        /\ hist.afterStart =>
                /\ last.log = <<>>
                /\ last.exc = NoExc
                /\ obj = last.pre

C2_Witness ==
    /\ last.op = "start" /\ obj.enabled /\ hist.afterStart
    /\ obj.state = STARTED
    /\ Len(obj.listeners) = 2

(***************************************************************************)
(* C3. stop() on a Startable on which start() was never called is a no-op: *)
(* the state and the configured marker are unchanged, do_stop is not run   *)
(* and no listener is called.                                              *)
(***************************************************************************)
C3_StopNeverStartedNoop ==
    (last.op = "stop" /\ ~hist.started) =>
        /\ obj = last.pre
        /\ last.log = <<>>

(***************************************************************************)
(* C4. add_listener appends one more occurrence of the listener even when  *)
(* it is registered already, remove_listener removes exactly one           *)
(* occurrence, and (callbacks returning and leaving the list alone) every  *)
(* event of a call is delivered to a listener once per occurrence: twice   *)
(* when registered twice, once after one removal, never after the second.  *)
(***************************************************************************)
C4_ListenerOccurrences ==
    /\ (last.op = "add_listener" /\ last.arg \in Listeners) =>
            \A l \in Listeners :
                Count(obj.listeners, l) =
                    Count(last.pre.listeners, l) + (IF l = last.arg THEN 1 ELSE 0)
    /\ (last.op = "remove_listener" /\ last.arg \in Listeners) =>
            \A l \in Listeners :
                Count(obj.listeners, l) =
                    Count(last.pre.listeners, l)
                    - (IF l = last.arg /\ Count(last.pre.listeners, l) > 0 THEN 1 ELSE 0)
    /\ (last.op \in LifeOps /\ ~last.faulted) =>
            \A ev \in EventsOf(last.log) : \A l \in Listeners :
                Deliveries(last.log, l, ev) = Count(obj.listeners, l)

C4_Witness ==
    /\ last.op \in LifeOps /\ ~last.faulted
    /\ \E l \in Listeners :
          /\ Count(obj.listeners, l) = 2
          /\ Deliveries(last.log, l, "started") = 2

(***************************************************************************)
(* C9. When do_configure, do_start or do_stop raises inside a call (the    *)
(* listener callbacks returning and leaving the list alone), the call ends *)
(* with the object FAILED, every registered listener called exactly once   *)
(* (per registration) with failure and that exception, the same exception  *)
(* raised to the caller, and the lock not held.                            *)
(***************************************************************************)
C9_HookFailure ==
    \A x \in Hooks :
        (last.op \in LifeOps /\ x \in HookExcs(last.log) /\ ~last.faulted) =>
            /\ obj.state = FAILED
            /\ last.exc = x
            /\ obj.lock = 0
            /\ \A l \in Listeners :
                  Deliveries(last.log, l, "failure") = Count(obj.listeners, l)
            /\ \A i \in 1..Len(last.log) :
                  (last.log[i].k = "ev" /\ last.log[i].e = "failure") => last.log[i].x = x

C9_Witness ==
    /\ last.op = "start" /\ ~last.faulted
    /\ "do_start" \in HookExcs(last.log)
    /\ Len(obj.listeners) = 2
    /\ obj.state = FAILED

(***************************************************************************)
(* C10. Every state transition of a call delivers its event to every       *)
(* listener registered at the moment of the transition, in registration    *)
(* order, before the call ends, also when a callback raises or when it     *)
(* adds or removes listeners during the notification.                      *)
(***************************************************************************)
C10_EveryListenerNotified ==
    last.op \in LifeOps =>
        \A i \in 1..Len(last.log) :
            last.log[i].k = "set" =>
                IsPrefix(last.log[i].at, CalledFrom(last.log, i + 1))

(***************************************************************************)
(* C5. A StartableManager contains its children's failures: whichever      *)
(* children's hooks raise while start() cascades, start() does not raise,  *)
(* the manager ends STARTED and never FAILED, and every registered enabled *)
(* child whose own calls raised nothing ends STARTED; likewise configure() *)
(* leaves the manager and every such child configured, and stop() leaves   *)
(* them STOPPED.                                                           *)
(***************************************************************************)
\* the manager's hook of call op ran its loop in the last call
Cascaded(op) ==
    \E i \in 1..Len(mlast.log) : mlast.log[i].k = "child" /\ mlast.log[i].e = op

\* a call the manager made on child c in the last call raised
ChildRaised(c) ==
    \E i \in 1..Len(mlast.log) :
        mlast.log[i].k = "child" /\ mlast.log[i].l = c /\ mlast.log[i].x # NoExc

C5_CascadeContainment ==
    /\ mgr.state # FAILED
    /\ mlast.op \in LifeOps => mlast.exc = NoExc
    /\ mlast.op = "start" =>
          /\ mgr.state = STARTED
          /\ Cascaded("start") =>
                \A c \in Children :
                    (Contains(objects, c) /\ kids[c].enabled /\ ~ChildRaised(c)) =>
                        kids[c].state = STARTED
    /\ mlast.op = "configure" =>
          /\ mgr.configured = CONFIGURED
          /\ Cascaded("configure") =>
                \A c \in Children :
                    (Contains(objects, c) /\ ~ChildRaised(c)) =>
                        kids[c].configured = CONFIGURED
    /\ mlast.op = "stop" =>
          /\ mgr.state = STOPPED
          /\ Cascaded("stop") =>
                \A c \in Children :
                    (Contains(objects, c) /\ ~ChildRaised(c)) => kids[c].state = STOPPED

C5_Witness ==
    /\ mlast.op = "start" /\ mgr.state = STARTED /\ Len(objects) = 2
    /\ \E c \in Children :
          /\ \E i \in 1..Len(mlast.log) :
                /\ mlast.log[i].k = "child" /\ mlast.log[i].l = c
                /\ mlast.log[i].e = "start" /\ mlast.log[i].x = "do_start"
          /\ kids[c].state = FAILED
          /\ \E b \in Children \ {c} :
                Contains(objects, b) /\ ~ChildRaised(b) /\ kids[b].state = STARTED

(***************************************************************************)
(* C11. FAILED is not absorbing: when the object is FAILED because a hook  *)
(* raised in the lifecycle call before, the next configure(), start() or   *)
(* stop() on the (enabled) object whose hooks do not raise, its callbacks  *)
(* returning, leaves it CONFIGURED, STARTED or STOPPED respectively.       *)
(***************************************************************************)
C11_FailedNotAbsorbing ==
    (/\ last.op \in LifeOps /\ hist.hookFailed /\ last.pre.state = FAILED
     /\ obj.enabled /\ HookExcs(last.log) = {} /\ ~last.faulted) =>
        /\ last.op = "configure" => obj.state = CONFIGURED
        /\ last.op = "start" => obj.state = STARTED
        /\ last.op = "stop" => obj.state = STOPPED

(***************************************************************************)
(* C12. do_start is never run, and STARTED is never reached, on an object  *)
(* whose do_configure has not run to its end without raising, whatever     *)
(* configure(), start() and stop() calls were made; in particular not by a *)
(* start() made after a configure() that failed.                           *)
(***************************************************************************)
\* do_configure returned without raising in log entries 1..n of the last
\* call, or in a call before it
ConfigureDoneBy(n) ==
    \/ hist.configureDone
    \/ \E i \in 1..n :
          /\ last.log[i].k = "hook" /\ last.log[i].e = "do_configure"
          /\ last.log[i].x = NoExc

C12_NoStartUnconfigured ==
    /\ obj.state = STARTED => ConfigureDoneBy(Len(last.log))
    /\ \A i \in 1..Len(last.log) :
          (last.log[i].k = "hook" /\ last.log[i].e = "do_start") => ConfigureDoneBy(i)

(***************************************************************************)
(* C13. start() on a Startable whose enabled flag is false is a no-op in   *)
(* every state, a never-configured one included: the state and the         *)
(* configured marker are unchanged, no hook runs, no listener is called.   *)
(***************************************************************************)
C13_DisabledStartNoop ==
    (last.op = "start" /\ ~last.pre.enabled) =>
        /\ obj = last.pre
        /\ last.log = <<>>

(***************************************************************************)
(* C14. add_listener and remove_listener are idempotent and type-checked:  *)
(* after add_listener(l) a second add_listener(l) leaves the list as it    *)
(* is, after remove_listener(l) a second remove_listener(l) leaves the     *)
(* list as it is, and either call with a value that is no                  *)
(* StartableListener leaves the list unchanged and raises nothing.         *)
(***************************************************************************)
C14_ListenerIdempotent ==
    /\ last.op = "add_listener" =>
          add_listener(obj.listeners, last.arg) = obj.listeners
    /\ last.op = "remove_listener" =>
          remove_listener(obj.listeners, last.arg) = obj.listeners
    /\ (last.op \in {"add_listener", "remove_listener"} /\ last.arg \notin Listeners) =>
          /\ obj.listeners = last.pre.listeners
          /\ last.exc = NoExc

(***************************************************************************)
(* C15. add_object(child) on a running manager sets the child's            *)
(* configuration to the manager's, calls the child's start() before it     *)
(* returns (an enabled child whose start() raises nothing is STARTED then) *)
(* and raises RuntimeError exactly when that start() raised; on a manager  *)
(* that is not running it registers the child and changes nothing on it.   *)
(* No other child is touched.                                              *)
(***************************************************************************)
C15_AddObjectStarts ==
    [][(mlast'.op = "add_object" /\ mlast'.arg \in Children) =>
        LET c == mlast'.arg
            log == mlast'.log
        IN  /\ Contains(objects', c)
            /\ \A b \in Children \ {c} : kids'[b] = kids[b]
            /\ is_running(mgr) =>
                  /\ kids'[c].configuration = mgr.configuration
                  /\ Len(log) = 1
                  /\ log[1].k = "child" /\ log[1].l = c /\ log[1].e = "start"
                  /\ mlast'.exc = IF log[1].x # NoExc THEN RuntimeError ELSE NoExc
                  /\ (log[1].x = NoExc /\ kids[c].enabled) => kids'[c].state = STARTED
            /\ ~is_running(mgr) =>
                  /\ kids' = kids
                  /\ log = <<>>
                  /\ mlast'.exc = NoExc]_vars

\* C15 witness: add_object on a STARTED manager whose child's do_start
\* raised: the caller got RuntimeError, the child is registered, FAILED and
\* holds the manager's configuration.
C15_Witness ==
    /\ mlast.op = "add_object" /\ mlast.arg \in Children
    /\ mgr.state = STARTED
    /\ mlast.exc = RuntimeError
    /\ mlast.log[1].x = "do_start"
    /\ Contains(objects, mlast.arg)
    /\ kids[mlast.arg].state = FAILED
    /\ kids[mlast.arg].configuration = ManagerConfig

(***************************************************************************)
(* C16. After any sequence of add_object and remove_object calls the       *)
(* manager's collection holds no child twice, and add_object of a child    *)
(* that is registered already is a no-op in every state of the manager:    *)
(* the collection and the child's state and configuration are unchanged.   *)
(***************************************************************************)
C16_ReAddNoop ==
    [][/\ \A c \in Children : Count(objects', c) <= 1
       /\ (/\ mlast'.op = "add_object" /\ mlast'.arg \in Children
           /\ Contains(objects, mlast'.arg)) =>
                /\ objects' = objects
                /\ kids'[mlast'.arg].state = kids[mlast'.arg].state
                /\ kids'[mlast'.arg].configuration = kids[mlast'.arg].configuration]_vars

(***************************************************************************)
(* C17. After manager.configure() or manager.start() has returned, the     *)
(* configuration of every registered child is the manager's configuration  *)
(* object, also of a child registered after the manager was configured and *)
(* before it was started.                                                  *)
(***************************************************************************)
C17_ConfigurationPropagated ==
    mlast.op \in {"configure", "start"} =>
        \A c \in Children :
            Contains(objects, c) => kids[c].configuration = mgr.configuration

(***************************************************************************)
(* SpecWorker claims.                                                      *)
(***************************************************************************)
\* The items the worker has taken out of the queue so far, in order.
Consumed == SubSeq(enqueued, 1, Len(enqueued) - Len(queue))

\* The position of the first ShutdownMessage of seq, Len(seq) + 1 if none.
FirstShutdown(seq) ==
    IF \E i \in 1..Len(seq) : seq[i] = ShutdownMessage
    THEN CHOOSE i \in 1..Len(seq) :
             /\ seq[i] = ShutdownMessage
             /\ \A j \in 1..(i - 1) : seq[j] # ShutdownMessage
    ELSE Len(seq) + 1

BeforeShutdown(seq) == SubSeq(seq, 1, FirstShutdown(seq) - 1)

RECURSIVE MessagesOf(_)
MessagesOf(seq) ==
    IF seq = <<>> THEN <<>>
    ELSE IF Head(seq).kind = "message" THEN <<Head(seq)>> \o MessagesOf(Tail(seq))
    ELSE MessagesOf(Tail(seq))

ExecutedItems == [i \in 1..Len(executed) |-> executed[i].item]

WorkerLeftLoop == wpc \in {"finally", "exited"}

\* C6: while the worker is not terminated by force, execute_module has been
\* called exactly on the messages taken from the queue that were enqueued
\* before the first ShutdownMessage, in enqueue order; the ShutdownMessage is
\* never passed to execute_module; the worker leaves the loop exactly when it
\* has taken the first ShutdownMessage, takes nothing after it, and once it
\* has left, the executed messages are the messages enqueued before the first
\* ShutdownMessage, so that nothing enqueued after it is executed.
C6_ExecutedBeforeSentinel ==
    /\ enqueued = Consumed \o queue
    /\ ExecutedItems = MessagesOf(BeforeShutdown(Consumed))
    /\ \A i \in 1..Len(executed) : executed[i].item # ShutdownMessage
    /\ WorkerLeftLoop =>
          /\ FirstShutdown(Consumed) = Len(Consumed)
          /\ ExecutedItems = MessagesOf(BeforeShutdown(enqueued))
    /\ wpc = "loop" => FirstShutdown(Consumed) = Len(Consumed) + 1
    /\ wpc = "terminated" => FirstShutdown(Consumed) >= Len(Consumed)

\* C6 witness: messages A and B, the ShutdownMessage, then a message were
\* enqueued; the worker executed A and B, left the loop and ended, and the
\* message behind the ShutdownMessage is still in the queue.
C6_Witness ==
    /\ wpc = "exited"
    /\ Len(enqueued) >= 4
    /\ enqueued[1].kind = "message" /\ enqueued[2].kind = "message"
    /\ enqueued[1] # enqueued[2]
    /\ enqueued[3] = ShutdownMessage
    /\ enqueued[4].kind = "message"
    /\ ExecutedItems = <<enqueued[1], enqueued[2]>>
    /\ queue # <<>> /\ Head(queue) = enqueued[4]

\* C7: when execute_module raised an Exception on a message, the worker is
\* still in the loop afterwards; every message taken from the queue after it
\* and before the ShutdownMessage was passed to execute_module as well; and
\* the engine's stop() has run only if the ShutdownMessage was taken, at most
\* once.
C7_RaiseKeepsLoop ==
    /\ wlast = "raised" => wpc \in {"loop", "terminated"} /\ engine.stopped = 0
    /\ \A i \in 1..Len(executed) :
          executed[i].raised =>
              \A j \in (i + 1)..Len(MessagesOf(BeforeShutdown(Consumed))) :
                  /\ j <= Len(executed)
                  /\ executed[j].item = MessagesOf(BeforeShutdown(Consumed))[j]
    /\ engine.stopped > 0 =>
          /\ engine.stopped = 1
          /\ \E i \in 1..Len(Consumed) : Consumed[i] = ShutdownMessage
    /\ (\A i \in 1..Len(Consumed) : Consumed[i] # ShutdownMessage) =>
          ~WorkerLeftLoop

\* C7 witness: execute_module raised on one message, a later message was
\* executed, and the worker is still in the loop with the engine running.
C7_Witness ==
    /\ wpc = "loop"
    /\ engine = [started |-> 1, stopped |-> 0]
    /\ \E i \in 1..Len(executed) :
          /\ executed[i].raised
          /\ i < Len(executed)
          /\ ~executed[Len(executed)].raised


(***************************************************************************)
(* SpecSingleton claims.                                                   *)
(***************************************************************************)
\* C8: whatever the interleaving of the threads calling
\* get_default_instance(), at most one instance is allocated and __init__
\* runs on it at most once; once a call has returned, exactly one instance
\* exists and it was initialised once; every call returns that instance, and
\* its __init__ had finished when the return value was read.
C8_SingleInstance ==
    /\ Len(made) <= 1
    /\ \A i \in 1..Len(made) : made[i] <= 1
    /\ \A t \in Threads : \A k \in 1..Len(tret[t]) :
          /\ tret[t][k].value = 1
          /\ tret[t][k].inits = 1
          /\ made = <<1>>
          /\ VM_DEFAULT = 1

\* C8 witness: one thread's call has returned the instance, a second thread
\* is inside the method holding the lock and is about to return the same
\* instance, and a third thread's call waits for the lock.
C8_Witness ==
    \E a, b, c \in Threads :
        /\ a # b /\ b # c /\ a # c
        /\ tret[a] # <<>> /\ tret[a][1].value = VM_DEFAULT
        /\ tpc[b] = "return" /\ SINGLETON_LOCK.owner = b
        /\ tpc[c] = "acquire"
        /\ made = <<1>>


(***************************************************************************)
(* C18. do_stop puts the ShutdownMessage before it terminates the worker   *)
(* process, behind everything submitted before, and the terminate does not *)
(* wait for the worker: the step that puts the ShutdownMessage leaves the  *)
(* process alone; the process is terminated only after that put, with the  *)
(* ShutdownMessage behind every item put before stop; and the terminate    *)
(* takes nothing from the queue and does not run the engine's stop().      *)
(***************************************************************************)
C18_SentinelThenTerminate ==
    [][/\ (sup = "started" /\ sup' = "stopping") =>
             /\ enqueued' = Append(enqueued, ShutdownMessage)
             /\ queue' = Append(queue, ShutdownMessage)
             /\ wpc' = wpc
       /\ wpc' = "terminated" =>
             \E i \in 1..Len(enqueued') :
                /\ enqueued'[i] = ShutdownMessage
                /\ sup' = "stopped"
       /\ (sup # "stopped" /\ sup' = "stopped") =>
             /\ sup = "stopping"
             /\ queue' = queue /\ enqueued' = enqueued
             /\ engine' = engine /\ executed' = executed
             /\ wpc \in {"setup", "loop", "finally"} => wpc' = "terminated"]_vars

\* C18 witness: the process was terminated while the messages submitted
\* before stop and the ShutdownMessage behind them are all still in the
\* queue, the engine was started and its stop() has not run.
C18_Witness ==
    /\ wpc = "terminated" /\ sup = "stopped"
    /\ queue = enqueued
    /\ Len(queue) = 3
    /\ queue[1].kind = "message" /\ queue[2].kind = "message"
    /\ queue[3] = ShutdownMessage
    /\ engine = [started |-> 1, stopped |-> 0]
    /\ executed = <<>>

(***************************************************************************)
(* SpecThreads claims.                                                     *)
(***************************************************************************)
\* how often hook h was entered
Entered(h) == Cardinality({i \in 1..Len(clog) : clog[i].k = "begin" /\ clog[i].e = h})

\* the hooks entered and not yet left after the first n entries of clog
Running(n) ==
    Cardinality({i \in 1..n : clog[i].k = "begin"})
    - Cardinality({i \in 1..n : clog[i].k = "end"})

\* the events listener l was called with, in order
EventsTo(l) ==
    Let(SelectSeq(clog, LAMBDA en : en.k = "ev" /\ en.l = l),
        LAMBDA evs : [i \in 1..Len(evs) |-> evs[i].e])

StartEvents == <<"configuring", "configured", "starting", "started">>

AllDone == \A t \in Starters : cpc[t] = "done"

\* C19: threads call start() concurrently on a fresh enabled Startable whose
\* hooks and callbacks return.  In every interleaving do_configure and
\* do_start are each entered at most once, never while another hook of the
\* object is running, and every listener gets configuring, configured,
\* starting, started in this order, each at most once; when all the calls
\* have returned, each hook has run exactly once, each listener has got each
\* of the four events exactly once, the object is STARTED and its lock free.
C19_ConcurrentStart ==
    /\ Entered("do_configure") <= 1
    /\ Entered("do_start") <= 1
    /\ \A n \in 0..Len(clog) : Running(n) \in {0, 1}
    /\ \A l \in Listeners : IsPrefix(EventsTo(l), StartEvents)
    /\ AllDone =>
          /\ Entered("do_configure") = 1
          /\ Entered("do_start") = 1
          /\ cobj.state = STARTED /\ cobj.configured = CONFIGURED
          /\ cobj.lock = [owner |-> None, depth |-> 0]
          /\ \A i \in 1..Len(cobj.listeners) :
                EventsTo(cobj.listeners[i]) = StartEvents

\* C19 witness: every call has returned, the object has two listeners, and
\* the thread that ran do_start is not the one that ran do_configure.
C19_Witness ==
    /\ AllDone
    /\ Len(cobj.listeners) = 2
    /\ \E i, j \in 1..Len(clog) :
          /\ clog[i].k = "begin" /\ clog[i].e = "do_configure"
          /\ clog[j].k = "begin" /\ clog[j].e = "do_start"
          /\ clog[i].t # clog[j].t

(***************************************************************************)
(* C20. stop() on a running manager reaches every registered child also    *)
(* when add_object runs in another thread at the same time: when the       *)
(* manager was STARTED as the two calls began, both have returned and the  *)
(* manager is STOPPED, no registered child is STARTED or STARTING.         *)
(***************************************************************************)
C20_StopReachesAdded ==
    (/\ mlast.op = "race" /\ mlast.log[1].s = STARTED /\ mgr.state = STOPPED) =>
        \A c \in Children : Contains(objects, c) => ~is_running(kids[c])

(***************************************************************************)
(* C21. A ProcessThreadExecutor can go through the lifecycle again: the    *)
(* start() made after a start() and a stop() that both returned does not   *)
(* raise, leaves the object STARTED with its worker process alive, and     *)
(* that worker finds no ShutdownMessage of the earlier stop() in the       *)
(* queue.                                                                  *)
(***************************************************************************)
C21_Restart ==
    (slast.op = "start" /\ slast.was = 2) =>
        /\ slast.exc = NoExc
        /\ sobj.state = STARTED
        /\ sproc.alive
        /\ \A i \in 1..Len(squeue.items) : squeue.items[i] # ShutdownMessage
====
